---- MODULE Spec2Model ----
(***************************************************************************)
(* Model of big_data.py: the Neo4jDataLoader class (driver handle,         *)
(* create_node, load_data_from_csv) and the __main__ script that drives it.*)
(*                                                                         *)
(* Three specifications share the variables:                               *)
(*   Spec        the __main__ script (one run of the program),             *)
(*   SpecLoader  a client calling load_data_from_csv repeatedly on one     *)
(*               loader over one source,                                   *)
(*   SpecNode    a client calling create_node once on drawn arguments.     *)
(* Strings that the code builds or inspects are sequences of one-character *)
(* strings.  A row of the CSV is identified by its position (1..n).        *)
(***************************************************************************)
EXTENDS Integers, Sequences, FiniteSets, TLC

VARIABLES
  mpc,            \* position of the __main__ script
  config,         \* the configuration document: [exists, keys]
  driver,         \* self._driver: "none", "open" or "closed"
  close_calls,    \* number of calls of Neo4jDataLoader.close
  error,          \* the exception that ended the script, "none" if none
  lpc,            \* position inside load_data_from_csv
  csv_exists,     \* whether the file at csv_file_path exists
  csv_rows,       \* the data rows of the file, in file order
  data,           \* local: the DataFrame
  total_rows,     \* local
  num_batches,    \* local
  batch_size,     \* parameter
  i,              \* loop variable
  session,        \* the session of the with block: "none", "open", "closed"
  outstanding,    \* batch indices whose session.run call has not returned
  writes,         \* session.run calls issued by the current run, in order
  nodes,          \* the database: source row of every node, creation order
  nodes_at_start, \* the database when the current run was entered
  lerr,           \* the exception raised by the current run, "none" if none
  ok_runs,        \* runs of load_data_from_csv that returned
  failed_runs,    \* runs of load_data_from_csv that raised
  node_label,     \* create_node argument
  properties,     \* create_node argument: sequence of [key, value]
  tx_queries      \* statements passed to tx.run, in order

vars == <<mpc, config, driver, close_calls, error, lpc, csv_exists, csv_rows,
          data, total_rows, num_batches, batch_size, i, session, outstanding,
          writes, nodes, nodes_at_start, lerr, ok_runs, failed_runs,
          node_label, properties, tx_queries>>

mainVars == <<mpc, config, driver, close_calls, error>>
srcVars  == <<csv_exists, csv_rows>>
loadVars == <<lpc, data, total_rows, num_batches, batch_size, i, session,
              outstanding, writes, nodes, nodes_at_start, lerr, ok_runs,
              failed_runs>>
nodeVars == <<node_label, properties, tx_queries>>

----------------------------------------------------------------------------
(* Bounds *)
MaxRows  == 4
MaxBatch == 3
MaxRuns  == 2

(* Program constant: default of the batch_size parameter *)
DefaultBatchSize == 1000

Min(a, b) == IF a <= b THEN a ELSE b

RECURSIVE Iota(_)
Iota(n) == IF n = 0 THEN <<>> ELSE Append(Iota(n - 1), n)

----------------------------------------------------------------------------
(* load_data_from_csv *)

num_batches_ceil(total, size) == (total + size - 1) \div size
NumBatches(total, size) == (total \div size) + 1

start_index_overlap(idx, size) == IF idx = 0 THEN 0 ELSE idx * size - 1
start_index(idx, size) == idx * size

end_index(idx, size, total) == Min((idx + 1) * size, total)

\* DataFrame.iloc[a:b]: positions a..b-1, clamped to the frame
iloc(frame, a, b) ==
  LET lo == Min(a, Len(frame))
      hi == Min(b, Len(frame))
  IN  IF hi <= lo THEN <<>> ELSE SubSeq(frame, lo + 1, hi)

batch_data(frame, idx, size, total) ==
  iloc(frame, start_index(idx, size), end_index(idx, size, total))

\* "UNWIND $batch as row CREATE (n:label) SET n += row":
\* one new node per element of the batch parameter
RECURSIVE unwind_merge(_, _)
unwind_merge(db, batch) ==
  IF batch = <<>> THEN db
  ELSE unwind_merge(IF \E k \in 1..Len(db) : db[k] = Head(batch)
                    THEN db ELSE Append(db, Head(batch)), Tail(batch))
unwind_create_first(db, batch) ==
  IF batch = <<>> THEN Append(db, 0) ELSE db \o batch
UnwindCreate(db, batch) == db \o batch

\* entry into the method: parameters bound, nothing executed yet
LoadEnter(size) ==
  /\ lpc' = "read_csv"
  /\ batch_size' = size
  /\ data' = <<>>
  /\ total_rows' = 0
  /\ num_batches' = 0
  /\ i' = 0
  /\ session' = "none"
  /\ outstanding' = {}
  /\ writes' = <<>>
  /\ nodes_at_start' = nodes
  /\ lerr' = "none"
  /\ UNCHANGED <<nodes, ok_runs, failed_runs>>

\* lines 57-59
LoadReadCsv ==
  /\ lpc = "read_csv"
  /\ IF ~csv_exists
     THEN /\ lpc' = "failed"
          /\ lerr' = "FileNotFoundError"
          /\ failed_runs' = failed_runs + 1
          /\ UNCHANGED <<data, total_rows, num_batches>>
     ELSE /\ data' = csv_rows
          /\ total_rows' = Len(csv_rows)
          /\ IF batch_size = 0
             THEN /\ lpc' = "failed"
                  /\ lerr' = "ZeroDivisionError"
                  /\ failed_runs' = failed_runs + 1
                  /\ UNCHANGED num_batches
             ELSE /\ lpc' = "open_session"
                  /\ num_batches' = NumBatches(Len(csv_rows), batch_size)
                  /\ UNCHANGED <<lerr, failed_runs>>
  /\ UNCHANGED <<batch_size, i, session, outstanding, writes, nodes,
                 nodes_at_start, ok_runs>>
  /\ UNCHANGED <<mainVars, srcVars, nodeVars>>

\* line 61
LoadOpenSession ==
  /\ lpc = "open_session"
  /\ session' = "open"
  /\ i' = 0
  /\ lpc' = "loop"
  /\ UNCHANGED <<data, total_rows, num_batches, batch_size, outstanding,
                 writes, nodes, nodes_at_start, lerr, ok_runs, failed_runs>>
  /\ UNCHANGED <<mainVars, srcVars, nodeVars>>

\* lines 62-68, up to the call of session.run, which blocks the caller
LoopIssueAsync ==
  /\ lpc = "loop"
  /\ i < num_batches
  /\ writes' = Append(writes,
                 [index |-> i,
                  batch |-> batch_data(data, i, batch_size, total_rows)])
  /\ outstanding' = outstanding \cup {i}
  /\ i' = i + 1
  /\ UNCHANGED <<lpc, data, total_rows, num_batches, batch_size, session,
                 nodes, nodes_at_start, lerr, ok_runs, failed_runs>>
  /\ UNCHANGED <<mainVars, srcVars, nodeVars>>
LoopIssue ==
  /\ lpc = "loop"
  /\ i < num_batches
  /\ writes' = Append(writes,
                 [index |-> i,
                  batch |-> batch_data(data, i, batch_size, total_rows)])
  /\ outstanding' = outstanding \cup {i}
  /\ lpc' = "call"
  /\ UNCHANGED <<data, total_rows, num_batches, batch_size, i, session,
                 nodes, nodes_at_start, lerr, ok_runs, failed_runs>>
  /\ UNCHANGED <<mainVars, srcVars, nodeVars>>

\* session.run returns: the auto-commit transaction of the batch is applied
WriteReturn ==
  /\ lpc = "call"
  /\ \E o \in outstanding :
       /\ nodes' = UnwindCreate(nodes, writes[o + 1].batch)
       /\ outstanding' = outstanding \ {o}
  /\ i' = i + 1
  /\ lpc' = "loop"
  /\ UNCHANGED <<data, total_rows, num_batches, batch_size, session, writes,
                 nodes_at_start, lerr, ok_runs, failed_runs>>
  /\ UNCHANGED <<mainVars, srcVars, nodeVars>>

\* session.run raises: the exception leaves the with block (session closed)
\* and the method.  The transaction of the failing batch was either rolled
\* back or committed before the failure reached the client.
WriteFailRollback ==
  /\ lpc = "call"
  /\ \E o \in outstanding : outstanding' = outstanding \ {o}
  /\ nodes' = nodes_at_start
  /\ session' = "closed"
  /\ lerr' = "BatchWriteError"
  /\ failed_runs' = failed_runs + 1
  /\ lpc' = "failed"
  /\ UNCHANGED <<data, total_rows, num_batches, batch_size, i, writes,
                 nodes_at_start, ok_runs>>
  /\ UNCHANGED <<mainVars, srcVars, nodeVars>>
WriteFail ==
  /\ lpc = "call"
  /\ \E o \in outstanding :
       /\ outstanding' = outstanding \ {o}
       /\ \E committed \in BOOLEAN :
            nodes' = IF committed
                     THEN UnwindCreate(nodes, writes[o + 1].batch)
                     ELSE nodes
  /\ session' = "closed"
  /\ lerr' = "BatchWriteError"
  /\ failed_runs' = failed_runs + 1
  /\ lpc' = "failed"
  /\ UNCHANGED <<data, total_rows, num_batches, batch_size, i, writes,
                 nodes_at_start, ok_runs>>
  /\ UNCHANGED <<mainVars, srcVars, nodeVars>>

\* the loop is exhausted: the with block closes the session, line 70
LoopExit ==
  /\ lpc = "loop"
  /\ i >= num_batches
  /\ session' = "closed"
  /\ ok_runs' = ok_runs + 1
  /\ lpc' = "done"
  /\ UNCHANGED <<data, total_rows, num_batches, batch_size, i, outstanding,
                 writes, nodes, nodes_at_start, lerr, failed_runs>>
  /\ UNCHANGED <<mainVars, srcVars, nodeVars>>

\* a client calls loader.load_data_from_csv(path, label, batch_size)
CallLoad ==
  /\ lpc \in {"idle", "done", "failed"}
  /\ ok_runs + failed_runs < MaxRuns
  /\ \E size \in 0..MaxBatch : LoadEnter(size)
  /\ UNCHANGED <<mainVars, srcVars, nodeVars>>

LoadIdle ==
  /\ lpc = "idle" /\ data = <<>> /\ total_rows = 0 /\ num_batches = 0
  /\ i = 0 /\ session = "none" /\ outstanding = {} /\ writes = <<>>
  /\ nodes = <<>> /\ nodes_at_start = <<>> /\ lerr = "none"
  /\ ok_runs = 0 /\ failed_runs = 0

NodeIdle ==
  /\ node_label = <<>> /\ properties = <<>> /\ tx_queries = <<>>

InitLoader ==
  /\ mpc = "client" /\ config = [exists |-> TRUE, keys |-> {}]
  /\ driver = "open" /\ close_calls = 0 /\ error = "none"
  /\ csv_exists \in BOOLEAN
  /\ \E n \in 0..MaxRows : csv_rows = Iota(n)
  /\ (~csv_exists => csv_rows = <<>>)
  /\ batch_size = DefaultBatchSize
  /\ LoadIdle
  /\ NodeIdle

LoadSteps ==
  \/ LoadReadCsv
  \/ LoadOpenSession
  \/ LoopIssue
  \/ WriteReturn
  \/ WriteFail
  \/ LoopExit

NextLoader == CallLoad \/ LoadSteps

SpecLoader == InitLoader /\ [][NextLoader]_vars

----------------------------------------------------------------------------
(* Neo4jDataLoader.__init__, close, and the __main__ script *)

RequiredKeys == {"neo4j_uri", "neo4j_user", "neo4j_password", "csv_file_path"}

\* the script ends with an unhandled exception
MainRaise(exc) ==
  /\ mpc' = "exit_err"
  /\ error' = exc

\* lines 75-76
MainOpenConfig ==
  /\ mpc = "open_config"
  /\ IF config.exists
     THEN mpc' = "read_uri" /\ UNCHANGED error
     ELSE MainRaise("FileNotFoundError")
  /\ UNCHANGED <<config, driver, close_calls>>
  /\ UNCHANGED <<srcVars, loadVars, nodeVars>>

\* config['NEO4J'][key]
ReadKey(at, key, next) ==
  /\ mpc = at
  /\ IF key \in config.keys
     THEN mpc' = next /\ UNCHANGED error
     ELSE MainRaise("KeyError")
  /\ UNCHANGED <<config, driver, close_calls>>
  /\ UNCHANGED <<srcVars, loadVars, nodeVars>>

\* lines 78-80
MainReadUri      == ReadKey("read_uri", "neo4j_uri", "read_user")
MainReadUser     == ReadKey("read_user", "neo4j_user", "read_password")
MainReadPassword == ReadKey("read_password", "neo4j_password", "construct")

\* line 83: Neo4jDataLoader(uri, user, password) creates the driver
MainConstruct ==
  /\ mpc = "construct"
  /\ driver' = "open"
  /\ mpc' = "read_csv_path"
  /\ UNCHANGED <<config, close_calls, error>>
  /\ UNCHANGED <<srcVars, loadVars, nodeVars>>

\* line 83: GraphDatabase.driver rejects the URI or the credentials
MainConstructFail ==
  /\ mpc = "construct"
  /\ MainRaise("ConnectionError")
  /\ UNCHANGED <<config, driver, close_calls>>
  /\ UNCHANGED <<srcVars, loadVars, nodeVars>>

\* line 84
MainReadCsvPath == ReadKey("read_csv_path", "csv_file_path", "call_load")

\* line 87: batch_size takes its default
MainCallLoad ==
  /\ mpc = "call_load"
  /\ mpc' = "in_load"
  /\ LoadEnter(DefaultBatchSize)
  /\ UNCHANGED <<config, driver, close_calls, error>>
  /\ UNCHANGED <<srcVars, nodeVars>>

\* line 87 returns
MainLoadReturn ==
  /\ mpc = "in_load"
  /\ lpc = "done"
  /\ mpc' = "close"
  /\ UNCHANGED <<config, driver, close_calls, error>>
  /\ UNCHANGED <<srcVars, loadVars, nodeVars>>

\* line 87 raises: nothing catches it, line 90 is not reached
MainLoadRaise ==
  /\ mpc = "in_load"
  /\ lpc = "failed"
  /\ MainRaise(lerr)
  /\ UNCHANGED <<config, driver, close_calls>>
  /\ UNCHANGED <<srcVars, loadVars, nodeVars>>

\* line 90 and close, lines 22-24
MainClose ==
  /\ mpc = "close"
  /\ driver' = "closed"
  /\ close_calls' = close_calls + 1
  /\ mpc' = "exit_ok"
  /\ UNCHANGED <<config, error>>
  /\ UNCHANGED <<srcVars, loadVars, nodeVars>>

Init ==
  /\ mpc = "open_config"
  /\ \E e \in BOOLEAN, ks \in SUBSET RequiredKeys :
       /\ config = [exists |-> e, keys |-> ks]
       /\ (~e => ks = {})
  /\ driver = "none" /\ close_calls = 0 /\ error = "none"
  /\ csv_exists \in BOOLEAN
  /\ \E n \in 0..MaxRows : csv_rows = Iota(n)
  /\ (~csv_exists => csv_rows = <<>>)
  /\ batch_size = DefaultBatchSize
  /\ LoadIdle
  /\ NodeIdle

Next ==
  \/ MainOpenConfig
  \/ MainReadUri
  \/ MainReadUser
  \/ MainReadPassword
  \/ MainConstruct
  \/ MainConstructFail
  \/ MainReadCsvPath
  \/ MainCallLoad
  \/ LoadSteps
  \/ MainLoadReturn
  \/ MainLoadRaise
  \/ MainClose

Spec == Init /\ [][Next]_vars

----------------------------------------------------------------------------
(* create_node *)

\* Bounds on the drawn arguments
MaxProps  == 2
MaxKeyLen == 2
MaxValLen == 2

KeyChars == {"k", " "}
ValChars == {"v", "'"}
IntVals  == {7, 12}
Labels   == {<<"L">>, <<"C", "C">>}

StringsUpTo(chars, n) == UNION {[1..m -> chars] : m \in 0..n}

Keys   == StringsUpTo(KeyChars, MaxKeyLen)
Values == {[type |-> "str", s |-> v, n |-> 0] :
             v \in StringsUpTo(ValChars, MaxValLen)}
          \cup {[type |-> "int", s |-> <<>>, n |-> v] : v \in IntVals}

StrVal(v) == [type |-> "str", s |-> v, n |-> 0]

\* the drawn entries: every key with two fixed values, and every value with
\* two fixed keys
CoreKeys   == {<<"k">>, <<"k", " ">>}
CoreValues == {StrVal(<<"v", "'">>), [type |-> "int", s |-> <<>>, n |-> 12]}
Entries ==
  {[key |-> k, value |-> v] : k \in Keys, v \in CoreValues}
  \cup {[key |-> k, value |-> v] : k \in CoreKeys, v \in Values}

\* a dict in iteration order: its keys are distinct
Dicts ==
  UNION {{d \in [1..m -> Entries] :
            \A a, b \in 1..m : a # b => d[a].key # d[b].key} : m \in 0..MaxProps}

Digit(d) ==
  CASE d = 0 -> "0" [] d = 1 -> "1" [] d = 2 -> "2" [] d = 3 -> "3"
    [] d = 4 -> "4" [] d = 5 -> "5" [] d = 6 -> "6" [] d = 7 -> "7"
    [] d = 8 -> "8" [] d = 9 -> "9"

\* str(n) for n >= 0
RECURSIVE str_int(_)
str_int(n) ==
  IF n < 10 THEN <<Digit(n)>> ELSE Append(str_int(n \div 10), Digit(n % 10))

\* the grave accent character (U+0060), which cannot be written inside a
\* string literal; every other character is the one-character string
Backtick == "U+0060"

\* lines 37-38
contains_space(key) == \E p \in 1..Len(key) : key[p] = " "
quote_key_never(key) == key
quote_key(key) ==
  IF contains_space(key) THEN <<Backtick>> \o key \o <<Backtick>> ELSE key

\* value.replace("'", "\\'")
RECURSIVE replace_quote(_)
replace_quote(str) ==
  IF str = <<>> THEN <<>>
  ELSE (IF Head(str) = "'" THEN <<"\\", "'">> ELSE <<Head(str)>>)
       \o replace_quote(Tail(str))

\* lines 40-41 and the formatting of {value} on line 42
format_value(value) ==
  IF value.type = "str" THEN replace_quote(value.s) ELSE str_int(value.n)

\* line 42
entry(key, value) ==
  quote_key(key) \o <<":", " ", "'">> \o format_value(value)
                 \o <<"'", ",", " ">>

\* lines 36-42
RECURSIVE entries(_)
entries(props) ==
  IF props = <<>> THEN <<>>
  ELSE entry(Head(props).key, Head(props).value) \o entries(Tail(props))

CreatePrefix == <<"C", "R", "E", "A", "T", "E", " ", "(", "n", ":">>

\* lines 35-44
create_node_query(label, props) ==
  LET built == CreatePrefix \o label \o <<" ", "{">> \o entries(props)
  IN  SubSeq(built, 1, Len(built) - 2) \o <<"}", ")">>

\* a client calls loader.create_node(tx, node_label, properties); line 45
CreateNode ==
  /\ tx_queries = <<>>
  /\ tx_queries' = Append(tx_queries,
                          create_node_query(node_label, properties))
  /\ UNCHANGED <<node_label, properties>>
  /\ UNCHANGED <<mainVars, srcVars, loadVars>>

InitNode ==
  /\ mpc = "client" /\ config = [exists |-> TRUE, keys |-> {}]
  /\ driver = "open" /\ close_calls = 0 /\ error = "none"
  /\ csv_exists = FALSE /\ csv_rows = <<>>
  /\ batch_size = DefaultBatchSize
  /\ LoadIdle
  /\ node_label \in Labels
  /\ properties \in Dicts
  /\ tx_queries = <<>>

NextNode == CreateNode

SpecNode == InitNode /\ [][NextNode]_vars

----------------------------------------------------------------------------
(* Properties of load_data_from_csv, checked under SpecLoader *)

RECURSIVE ConcatBatches(_)
ConcatBatches(ws) ==
  IF ws = <<>> THEN <<>> ELSE Head(ws).batch \o ConcatBatches(Tail(ws))

IsPrefix(s, t) == Len(s) <= Len(t) /\ SubSeq(t, 1, Len(s)) = s

RowsOf(batch) == {batch[p] : p \in 1..Len(batch)}

Count(s, r) == Cardinality({p \in 1..Len(s) : s[p] = r})

InRun == lpc \in {"loop", "call", "done", "failed"}

\* C1: for batch_size >= 1 the batches sliced by a run are rows
\* [idx*batch_size, min((idx+1)*batch_size, total_rows)), pairwise
\* non-overlapping, each of size <= batch_size, and concatenated in index
\* order they are the input rows in original order, each exactly once.
C1_BatchesPartitionRows ==
  (InRun /\ batch_size >= 1) =>
     /\ \A j \in 1..Len(writes) :
          LET b  == writes[j].batch
              lo == writes[j].index * batch_size
          IN  /\ Len(b) <= batch_size
              /\ \A p \in 1..Len(b) : /\ lo + p <= Len(csv_rows)
                                      /\ b[p] = csv_rows[lo + p]
              /\ (Len(b) < batch_size => lo + Len(b) >= Len(csv_rows))
     /\ \A j, k \in 1..Len(writes) :
          j # k => RowsOf(writes[j].batch) \cap RowsOf(writes[k].batch) = {}
     /\ IsPrefix(ConcatBatches(writes), csv_rows)
     /\ (lpc = "done" => ConcatBatches(writes) = csv_rows)

C1_Witness ==
  /\ lpc = "done" /\ total_rows = 3 /\ batch_size = 2
  /\ Len(writes) = 2
  /\ writes[1].batch = <<1, 2>> /\ writes[2].batch = <<3>>

\* C2: a successful run issues exactly floor(total_rows/batch_size) + 1
\* writes, one per batch index; the last one carries an empty batch exactly
\* when total_rows is a multiple of batch_size, and no other write does.
C2_WriteCountAndEmptyTail ==
  lpc = "done" =>
     /\ Len(writes) = (Len(csv_rows) \div batch_size) + 1
     /\ \A j \in 1..Len(writes) : writes[j].index = j - 1
     /\ (Len(csv_rows) % batch_size = 0
           => writes[Len(writes)].batch = <<>>)
     /\ (Len(csv_rows) % batch_size # 0
           => \A j \in 1..Len(writes) : writes[j].batch # <<>>)

C2_Witness ==
  /\ lpc = "done" /\ Len(csv_rows) = 4 /\ batch_size = 2
  /\ Len(writes) = 3 /\ writes[3].batch = <<>>

\* C3: over a source with zero data rows and batch_size >= 1 a run raises
\* nothing of its own (only the database can fail a write) and creates
\* zero nodes.
C3_EmptySourceCreatesNothing ==
  (csv_exists /\ csv_rows = <<>> /\ batch_size >= 1 /\ lpc # "idle") =>
     /\ lerr \in {"none", "BatchWriteError"}
     /\ nodes = <<>>
     /\ (lpc = "done" => /\ Len(writes) = 1 /\ writes[1].batch = <<>>)

C3_Witness ==
  /\ csv_exists /\ csv_rows = <<>> /\ lpc = "done" /\ lerr = "none"
  /\ batch_size = 2 /\ Len(writes) = 1 /\ nodes = <<>>

\* C4: every record yields exactly one node and nothing is deduplicated:
\* after k successful runs (and no failed one) over the same source the
\* database holds k nodes for every row, k * total_rows nodes in all.
C4_RunsDuplicateNodes ==
  (lpc = "done" /\ failed_runs = 0) =>
     /\ Len(nodes) = ok_runs * Len(csv_rows)
     /\ \A r \in 1..Len(csv_rows) : Count(nodes, csv_rows[r]) = ok_runs

C4_Witness ==
  /\ lpc = "done" /\ failed_runs = 0 /\ ok_runs = 2
  /\ Len(csv_rows) = 3 /\ Len(nodes) = 6

BatchFailed == lpc = "failed" /\ lerr = "BatchWriteError"

\* C5: when the write of batch k fails the run ends there: the nodes of
\* batches 0..k-1 are still in the database, the writes issued are those
\* of batches 0..k, each once, and nothing more is written by that run.
C5_FailureStopsRunKeepsEarlier ==
  /\ [](BatchFailed =>
          /\ Len(writes) = i + 1
          /\ \A j \in 1..Len(writes) : writes[j].index = j - 1
          /\ outstanding = {}
          /\ IsPrefix(nodes_at_start \o ConcatBatches(SubSeq(writes, 1, i)),
                      nodes))
  /\ [][BatchFailed => \/ (writes' = writes /\ nodes' = nodes)
                       \/ (lpc' = "read_csv" /\ nodes' = nodes)]_vars

C5_Witness ==
  /\ BatchFailed /\ i = 1 /\ batch_size = 2 /\ Len(csv_rows) = 3
  /\ nodes = nodes_at_start \o <<1, 2>>

\* C6: writes are issued in increasing batch-index order and write idx+1
\* is issued only after the call for write idx returned: never are two
\* writes outstanding.
C6_WritesSequential ==
  /\ Cardinality(outstanding) <= 1
  /\ \A j \in 1..Len(writes) : writes[j].index = j - 1
  /\ \A j \in 1..Len(writes) :
       j < Len(writes) => writes[j].index \notin outstanding

C6_Witness ==
  /\ lpc = "call" /\ i = 1 /\ outstanding = {1} /\ Len(writes) = 2

----------------------------------------------------------------------------
(* Properties of the __main__ script, checked under Spec *)

Exited == mpc \in {"exit_ok", "exit_err"}

ConfigBad == ~config.exists \/ config.keys # RequiredKeys

\* C7: in every run that constructs a Neo4jDataLoader, close has been
\* called exactly once when the run ends, whether load_data_from_csv
\* succeeded or failed, and on success after the last write returned.
C7_HandleReleasedOnce ==
  (Exited /\ driver # "none") =>
     /\ close_calls = 1
     /\ driver = "closed"
     /\ (mpc = "exit_ok" => lpc = "done" /\ outstanding = {})

\* C8: with the configuration document missing or any of the four required
\* keys absent, the program fails before the connection handle is
\* constructed and before any write is issued.
C8_ConfigErrorBeforeConnection ==
  ConfigBad => /\ driver = "none"
               /\ writes = <<>>
               /\ mpc # "exit_ok"

----------------------------------------------------------------------------
(* Properties of create_node, checked under SpecNode *)

NumQuotes(str) == Cardinality({p \in 1..Len(str) : str[p] = "'"})

NumDigits(n) == IF n < 10 THEN 1 ELSE IF n < 100 THEN 2 ELSE 3

\* lengths an entry must have in the statement
KeyTextLen(key) == IF contains_space(key) THEN Len(key) + 2 ELSE Len(key)
LiteralLen(value) ==
  IF value.type = "str" THEN Len(value.s) + NumQuotes(value.s)
  ELSE NumDigits(value.n)
EntryLen(p) == KeyTextLen(p.key) + 3 + LiteralLen(p.value) + 3

RECURSIVE EntryOffset(_, _, _)
EntryOffset(label, props, n) ==
  IF n = 1 THEN Len(CreatePrefix) + Len(label) + 2
  ELSE EntryOffset(label, props, n - 1) + EntryLen(props[n - 1])

\* the literal with every backslash that precedes a quote removed
RECURSIVE Unescape(_)
Unescape(lit) ==
  IF lit = <<>> THEN <<>>
  ELSE IF Len(lit) >= 2 /\ lit[1] = "\\" /\ lit[2] = "'"
       THEN <<"'">> \o Unescape(SubSeq(lit, 3, Len(lit)))
       ELSE <<Head(lit)>> \o Unescape(Tail(lit))

\* C9: in the statement built by create_node, for every property, each
\* single quote of a string value is preceded by a backslash in the
\* embedded literal, the value stands between single quotes, and the key
\* is wrapped in backticks if and only if it contains a space.
C9_EscapingAndKeyQuoting ==
  tx_queries # <<>> =>
    LET stmt == tx_queries[1] IN
    \A n \in 1..Len(properties) :
      LET key   == properties[n].key
          value == properties[n].value
          off   == EntryOffset(node_label, properties, n)
          klen  == KeyTextLen(key)
          vlen  == LiteralLen(value)
          text  == SubSeq(stmt, off + 1, off + klen)
          open  == off + klen + 3
          lit   == SubSeq(stmt, open + 1, open + vlen)
      IN  /\ Len(stmt) >= open + vlen + 1
          /\ (contains_space(key) => text = <<Backtick>> \o key \o <<Backtick>>)
          /\ (~contains_space(key) => text = key)
          /\ stmt[off + klen + 1] = ":" /\ stmt[off + klen + 2] = " "
          /\ stmt[open] = "'"
          /\ stmt[open + vlen + 1] = "'"
          /\ (value.type = "str" =>
                /\ \A p \in 1..Len(lit) :
                     lit[p] = "'" => (p > 1 /\ lit[p - 1] = "\\")
                /\ Unescape(lit) = value.s)

C9_Witness ==
  /\ tx_queries # <<>>
  /\ node_label = <<"L">>
  /\ properties = <<[key |-> <<"k", " ">>,
                     value |-> [type |-> "str", s |-> <<"v", "'">>, n |-> 0]]>>
  /\ tx_queries[1] = <<"C", "R", "E", "A", "T", "E", " ", "(", "n", ":", "L",
                       " ", "{", Backtick, "k", " ", Backtick, ":", " ", "'", "v",
                       "\\", "'", "'", "}", ")">>

RECURSIVE JoinEntries(_)
JoinEntries(props) ==
  IF props = <<>> THEN <<>>
  ELSE LET p == Head(props)
           e == quote_key(p.key) \o <<":", " ", "'">>
                  \o format_value(p.value) \o <<"'">>
       IN  IF Tail(props) = <<>> THEN e
           ELSE e \o <<",", " ">> \o JoinEntries(Tail(props))

\* C10: for every label and every properties map, the empty map included,
\* create_node calls tx.run exactly once with 'CREATE (n:<label> {', one
\* "key: 'value'" entry per property in iteration order separated by ', '
\* without trailing separator, and '})'.
C10_StatementForm ==
  tx_queries # <<>> =>
    /\ Len(tx_queries) = 1
    /\ tx_queries[1] = CreatePrefix \o node_label \o <<" ", "{">>
                         \o JoinEntries(properties) \o <<"}", ")">>

====
